---- MODULE Spec2Model ----
(***************************************************************************)
(* The vultr_kubernetes resource: Create (CreateCluster, SetId, wait for   *)
(* status "active", Read), the refresh callback handed to the poller, and  *)
(* the convergence poller itself.  The poller's loop lives in the plugin   *)
(* SDK (StateChangeConf.WaitForStateContext), outside this repository's    *)
(* sources; it is modelled here after the specification's section 4.1, 5   *)
(* and 7.  Time is counted in seconds since the wait started.              *)
(***************************************************************************)
EXTENDS Integers, Sequences, FiniteSets, TLC

\* ------------------------------------------------------------ configuration

\* waitForVKEAvailable's StateChangeConf and its call in Create.
\* A wrong target label.
TargetMut == "ready"

Target == "active"

\* A pending list that also takes the failure label.
PendingMut == {"pending", "failed"}

Pending == {"pending"}
\* A timeout of twice the time.
TimeoutMut == 120 * 60

Timeout == 60 * 60
Delay == 10

\* A minimum interval of twice the time.
MinTimeoutMut == 2 * 5

MinTimeout == 5
NotFoundChecks == 60
Attribute == "status"

\* PollSpec.maxInterval: the cap of the backoff.
MaxInterval == 20

\* Status labels the remote API may report for a cluster.
Statuses == {"pending", "active", "failed"}

\* Error messages of a failed GetCluster call.
ApiErrors ==
    {"Unauthorized", "Invalid resource ID", "connection reset",
     "Unauthorized: Invalid resource ID"}

\* The phrases Read looks for that an error message holds.
Phrases(msg) ==
    CASE msg = "Unauthorized" -> {"Unauthorized"}
      [] msg = "Invalid resource ID" -> {"Invalid resource ID"}
      [] msg = "Unauthorized: Invalid resource ID" ->
            {"Unauthorized", "Invalid resource ID"}
      [] OTHER -> {}

\* strings.Contains(msg, phrase)
Contains(msg, phrase) == phrase \in Phrases(msg)

\* What one GetCluster call returns: a cluster with its status, or an error.
GetClusterResults ==
    [err : {"none"}, status : Statuses] \cup [err : ApiErrors, status : {""}]

\* What GetKubeConfig returns.
GetKubeConfigResults == {"ok", "error"}

\* A cluster ID that is empty: the ID is never set.
ClusterIDUnset == ""

\* The id CreateCluster gives the new cluster.
ClusterID == "vke-1"

\* Counters of the history are exact below this bound and stay at it above.
MaxCount == 4

\* Handlers run after Create in one behaviour.
MaxOps == 3

\* The tag of the node pool the provider manages.
tfVKEDefault == "tf-vke-default"

\* Labels and node-pool sizes of the configuration.
Labels == {"a", "b"}

Quantities == {1, 2}

\* The node_pools of a configuration: at most one pool (MaxItems: 1).
ConfigPools == {<<>>} \cup {<<[qty |-> q]>> : q \in Quantities}

\* The node_pools Create is given.
CreateConfigPools == {<<>>, <<[qty |-> 1]>>}

Min(a, b) == IF a < b THEN a ELSE b

Inc(n) == Min(n + 1, MaxCount)

\* ------------------------------------------------------------------- state

\* Two waits for two resources that run side by side.
Invocations == {1, 2}

\* A StateChangeConf not yet in use.
NoConf == [wait |-> 0, budget |-> 0, outcome |-> "none", fetches |-> 0]

\* The fields of a cluster that are not its status.
Payloads == {"ip-1", "ip-2"}

\* The fetches one wait makes at most.
MaxFetches == 3

VARIABLES
    pc,         \* Create's position: start, waiting, read, kubeconfig, done
    id,         \* d.Id()
    diags,      \* what Create returned: "none" while running, "ok", "error"
    attrs,      \* attributes Read has written to the state
    ctxDone,    \* the context has been cancelled
    now,        \* seconds since the wait started
    wpc,        \* the poller: idle, delay, fetching, sleeping, done
    wait,       \* the current backoff interval
    wakeAt,     \* when the delay or the sleep ends
    budget,     \* not-found retries left
    outcome,    \* none, success, NotFound, Unexpected, TimedOut, Cancelled, TransportError
    result,     \* the observation the poller ended on
    inflight,   \* GetCluster calls of the refresh callback not yet returned
    hist,       \* history: counters and times the properties read
    op,         \* the handler that runs or ran last: create, read, update, delete
    ops,        \* handlers started after Create
    st,         \* the state before the handler: label and node_pools
    d,          \* the handler's ResourceData: label and node_pools
    remote,     \* the cluster at the provider: label, node pools, pools made
    calls,      \* the API calls of the handler, in order, with their success
    confs,      \* two waits side by side: the poller record of each StateChangeConf
    seen,       \* two waits side by side: the GetCluster results each wait got
    begun       \* two waits side by side: the waits that have started

\* What the handlers after the wait work on.
life == <<op, ops, st, d, remote, calls>>

pair == <<confs, seen, begun>>

vars == <<pc, id, diags, attrs, ctxDone, now, wpc, wait, wakeAt, budget,
          outcome, result, inflight, hist, op, ops, st, d, remote, calls,
          confs, seen, begun>>

NoObs == [res |-> "nil", state |-> "", err |-> "none"]

NoRaw == [err |-> "none", status |-> ""]

NoHist ==
    [fetches |-> 0, transients |-> 0, notFounds |-> 0, sleeps |-> 0,
     firstSleep |-> 0, lastSleep |-> 0, lastRaw |-> NoRaw,
     cancelAt |-> -1, doneAt |-> -1,
     fetchAfterEnd |-> FALSE, lateFetch |-> FALSE,
     fetchAfterCancel |-> FALSE, readBeforeOk |-> FALSE,
     apiErrs |-> 0, sleptOnErr |-> FALSE,
     overlap |-> FALSE, reads |-> 0, waitWrites |-> FALSE,
     readErr |-> "none"]

NoRemote == [exists |-> FALSE, label |-> "", pools |-> <<>>, made |-> 0]

Init ==
    /\ pc = "start"
    /\ id = ""
    /\ diags = "none"
    /\ attrs = {}
    /\ ctxDone = FALSE
    /\ now = 0
    /\ wpc = "idle"
    /\ wait = 0
    /\ wakeAt = 0
    /\ budget = 0
    /\ outcome = "none"
    /\ result = NoObs
    /\ inflight = 0
    /\ hist = NoHist
    /\ op = "create"
    /\ ops = 0
    /\ st = [label |-> "", pools |-> <<>>]
    /\ d = [label |-> "a", pools |-> <<>>]
    /\ remote = NoRemote
    /\ calls = <<>>
    /\ confs = [i \in Invocations |-> NoConf]
    /\ seen = [i \in Invocations |-> <<>>]
    /\ begun = {}

SetHist(f, v) == [hist EXCEPT ![f] = v]

\* ------------------------------------------------------ the refresh callback

\* A refresh callback that drops the error of GetCluster.
newVKEStateRefreshSwallow(r, attr) ==
    IF r.err = "none" /\ attr = "status"
    THEN [res |-> "vke", state |-> r.status, err |-> "none"]
    ELSE NoObs

\* newVKEStateRefresh: one GetCluster call r, told to the poller as
\* (result, state, error).  Every GetCluster error becomes the same plain
\* error: the original error is neither returned nor wrapped.
newVKEStateRefresh(r, attr) ==
    IF r.err # "none"
    THEN [res |-> "nil", state |-> "", err |-> "error retrieving kubernetes cluster"]
    ELSE IF attr = "status"
         THEN [res |-> "vke", state |-> r.status, err |-> "none"]
         ELSE NoObs

\* A refresh callback that reads the cluster twice.
RefreshApiCallsTwice == <<"GetCluster", "GetCluster">>

\* The API calls one run of the refresh callback issues.
RefreshApiCalls == <<"GetCluster">>

\* The calls of a sequence that read / that write.
ReadsIn(cs) == Cardinality({i \in DOMAIN cs : cs[i] = "GetCluster"})

WritesIn(cs) == Cardinality({i \in DOMAIN cs : cs[i] # "GetCluster"})

\* ------------------------------------------------------------- the poller

\* How the poller reads one observation.
Classify(obs) ==
    IF obs.err = "NotFound" THEN "notfound"
    ELSE IF obs.err # "none" THEN "error"
    ELSE IF obs.state = Target THEN "target"
    ELSE IF obs.state \in Pending THEN "transient"
    ELSE "unexpected"

\* The backoff after a sleep of w: doubled, up to maxInterval.
NextWait(w) == Min(2 * w, MaxInterval)

\* waitForVKEAvailable hands Create's context to the poller: what the poller
\* sees of the cancellation.
WaitCtxDoneBackground == FALSE

WaitCtxDone == ctxDone

Running == pc = "waiting" /\ wpc \in {"delay", "sleeping", "fetching"}

\* The deadline has passed / the cancellation has been seen.
DeadlinePassed == now >= Timeout

\* The next moment the poller has something to do.
Due == IF wpc = "fetching" THEN Timeout ELSE Min(wakeAt, Timeout)

\* The poller ends with outcome o on observation obs.
End(o, obs) ==
    /\ wpc' = "done"
    /\ outcome' = o
    /\ result' = obs
    /\ UNCHANGED <<wait, wakeAt, budget>>

\* The poller sleeps for the current backoff and doubles it.
Sleep ==
    /\ wpc' = "sleeping"
    /\ wakeAt' = now + wait
    /\ wait' = NextWait(wait)
    /\ UNCHANGED <<outcome, result>>

\* waitForVKEAvailable: the wait starts with the configuration of the
\* StateChangeConf.
StartWait ==
    /\ wpc' = "delay"
    /\ now' = 0
    /\ wakeAt' = Delay
    /\ wait' = MinTimeout
    /\ budget' = NotFoundChecks
    /\ UNCHANGED <<outcome, result>>

\* ------------------------------------------------------------- node pools

\* A request that carries no tag.
NoTag == ""

\* A node pool of the configuration as the plan holds it: the computed
\* fields come from the state when it has a pool, and are unknown otherwise.
Planned(old, cfg) ==
    IF cfg = <<>> THEN <<>>
    ELSE IF old = <<>>
         THEN <<[id |-> 0, qty |-> cfg[1].qty, tag |-> ""]>>
         ELSE <<[old[1] EXCEPT !.qty = cfg[1].qty]>>

\* A generateNodePool that leaves the tag out.
generateNodePoolUntagged(pools) ==
    [i \in DOMAIN pools |-> [qty |-> pools[i].qty, tag |-> NoTag]]

\* generateNodePool: the requests for the pools of the configuration.
generateNodePool(pools) ==
    [i \in DOMAIN pools |-> [qty |-> pools[i].qty, tag |-> tfVKEDefault]]

\* flattenNodePool: a remote pool as the state holds it.
flattenNodePool(np) == <<[id |-> np.id, qty |-> np.qty, tag |-> np.tag]>>

\* The pools the API makes of the requests reqs, the first with id n + 1.
MakePools(reqs, n) ==
    [i \in DOMAIN reqs |-> [id |-> n + i, qty |-> reqs[i].qty, tag |-> reqs[i].tag]]

\* Read's loop: the places of the remote pools tagged tf-vke-default.
TaggedAt(pools) == {i \in DOMAIN pools : tfVKEDefault = pools[i].tag}

FirstOf(S) == CHOOSE i \in S : \A j \in S : i <= j

\* The node_pools Read leaves in d for the remote pools: the first tagged
\* pool when there is one, what d held otherwise.
ReadPools(pools, held) ==
    IF TaggedAt(pools) # {}
    THEN flattenNodePool(pools[FirstOf(TaggedAt(pools))])
    ELSE held

NoCall == [api |-> "none", pool |-> 0, qty |-> 0, tag |-> NoTag]

\* An Update that takes every change of node_pools for a new pool.
NodePoolCallAlwaysCreate(old, new) ==
    [api |-> "CreateNodePool", pool |-> 0,
     qty |-> IF new = <<>> THEN 0 ELSE new[1].qty, tag |-> tfVKEDefault]

\* resourceVultrKubernetesUpdate: the node-pool call for the old and the new
\* node_pools, when they differ.
NodePoolCall(old, new) ==
    IF new # <<>> /\ old # <<>>
    THEN [api |-> "UpdateNodePool", pool |-> new[1].id, qty |-> new[1].qty,
          tag |-> NoTag]
    ELSE IF new = <<>> /\ old # <<>>
         THEN [api |-> "DeleteNodePool", pool |-> old[1].id, qty |-> 0,
               tag |-> NoTag]
         ELSE IF new # <<>> /\ old = <<>>
              THEN [api |-> "CreateNodePool", pool |-> 0, qty |-> new[1].qty,
                    tag |-> tfVKEDefault]
              ELSE NoCall

\* The API can carry out the call: the pool it names exists.
CanSucceed(call, rem) ==
    call.api \in {"UpdateNodePool", "DeleteNodePool"} =>
        \E i \in DOMAIN rem.pools : rem.pools[i].id = call.pool

\* The cluster at the provider after the call succeeded.
ApplyCall(call, rem) ==
    CASE call.api = "UpdateNodePool" ->
           [rem EXCEPT !.pools =
              [i \in DOMAIN @ |->
                 IF @[i].id = call.pool
                 THEN [@[i] EXCEPT !.qty = call.qty,
                                   !.tag = IF call.tag = NoTag THEN @ ELSE call.tag]
                 ELSE @[i]]]
      [] call.api = "DeleteNodePool" ->
           [rem EXCEPT !.pools = SelectSeq(@, LAMBDA np : np.id # call.pool)]
      [] call.api = "CreateNodePool" ->
           [rem EXCEPT !.pools = Append(@, [id |-> rem.made + 1, qty |-> call.qty,
                                            tag |-> call.tag]),
                       !.made = @ + 1]
      [] OTHER -> rem

LogCall(call, ok) ==
    Append(calls, [api |-> call.api, ok |-> ok, pool |-> call.pool, tag |-> call.tag])

Log(api, ok) == LogCall([NoCall EXCEPT !.api = api], ok)

\* ---------------------------------------------------------------- actions

\* resourceVultrKubernetesCreate up to the start of the wait.
CreateCluster(ok, np) ==
    /\ UNCHANGED pair
    /\ pc = "start"
    /\ d' = [d EXCEPT !.pools = Planned(<<>>, np)]
    /\ calls' = Log("CreateCluster", ok)
    /\ IF ok
       THEN /\ id' = ClusterID
            /\ remote' = [exists |-> TRUE, label |-> d.label,
                          pools |-> MakePools(generateNodePool(np), 0),
                          made |-> Len(np)]
            /\ pc' = "waiting"
            /\ StartWait
            /\ UNCHANGED diags
       ELSE /\ diags' = "error"
            /\ pc' = "done"
            /\ UNCHANGED <<id, remote, now, wpc, wait, wakeAt, budget, outcome,
                           result>>
    /\ UNCHANGED <<attrs, ctxDone, inflight, hist, op, ops, st>>

\* The caller cancels the context.
CtxCancel ==
    /\ UNCHANGED pair
    /\ UNCHANGED life
    /\ ~ctxDone
    /\ pc # "done"
    /\ ctxDone' = TRUE
    /\ hist' = IF Running THEN SetHist("cancelAt", now) ELSE hist
    /\ UNCHANGED <<pc, id, diags, attrs, now, wpc, wait, wakeAt, budget,
                   outcome, result, inflight>>

\* Time passes while the poller delays, sleeps or waits for its fetch; it
\* does not pass over a moment at which the poller has to act.
Tick(dt) ==
    /\ UNCHANGED pair
    /\ UNCHANGED life
    /\ Running
    /\ ~WaitCtxDone
    /\ dt > 0
    /\ now + dt <= Due
    /\ now' = now + dt
    /\ UNCHANGED <<pc, id, diags, attrs, ctxDone, wpc, wait, wakeAt, budget,
                   outcome, result, inflight, hist>>

\* A tick of the poller: the delay or the sleep is over and the refresh
\* callback issues its GetCluster call.
FetchStart ==
    /\ UNCHANGED pair
    /\ UNCHANGED life
    /\ Running
    /\ wpc \in {"delay", "sleeping"}
    /\ now = wakeAt
    /\ ~WaitCtxDone
    /\ ~DeadlinePassed
    /\ wpc' = "fetching"
    /\ inflight' = inflight + ReadsIn(RefreshApiCalls)
    /\ wakeAt' = 0
    /\ hist' = [hist EXCEPT !.fetches = Inc(@),
                            !.overlap = @ \/ inflight > 0,
                            !.reads = Min(@ + ReadsIn(RefreshApiCalls), MaxCount),
                            !.waitWrites = @ \/ WritesIn(RefreshApiCalls) > 0,
                            !.fetchAfterEnd = @ \/ outcome # "none",
                            !.lateFetch = @ \/ DeadlinePassed,
                            !.fetchAfterCancel = @ \/ hist.cancelAt >= 0]
    /\ UNCHANGED <<pc, id, diags, attrs, ctxDone, now, wait, budget,
                   outcome, result>>

\* What the poller does with the observation obs of GetCluster result r.
Observe(r, obs) ==
    LET c == Classify(obs)
        h == [hist EXCEPT !.lastRaw = r,
                          !.apiErrs = IF r.err # "none" THEN Inc(@) ELSE @,
                          !.notFounds = IF r.err = "Invalid resource ID"
                                        THEN Inc(@) ELSE @]
    IN  CASE c = "target" ->
               /\ End("success", obs)
               /\ hist' = [h EXCEPT !.doneAt = now]
          [] c = "transient" ->
               /\ Sleep
               /\ UNCHANGED budget
               /\ hist' = [h EXCEPT !.transients = Inc(@), !.sleeps = Inc(@),
                                    !.firstSleep = IF hist.sleeps = 0 THEN wait ELSE @,
                                    !.lastSleep = wait]
          [] c = "unexpected" ->
               /\ End("Unexpected", obs)
               /\ hist' = [h EXCEPT !.doneAt = now]
          [] c = "notfound" ->
               IF budget = 0
               THEN /\ End("NotFound", obs)
                    /\ hist' = [h EXCEPT !.doneAt = now]
               ELSE /\ Sleep
                    /\ budget' = budget - 1
                    /\ hist' = [h EXCEPT !.sleeps = Inc(@), !.sleptOnErr = TRUE,
                                         !.firstSleep = IF hist.sleeps = 0 THEN wait ELSE @,
                                         !.lastSleep = wait]
          [] c = "error" ->
               /\ End("TransportError", obs)
               /\ hist' = [h EXCEPT !.doneAt = now]

\* A refresh callback that returns while its GetCluster call still runs.
FetchReturnEarly(r) ==
    /\ UNCHANGED pair
    /\ UNCHANGED life
    /\ inflight > 0
    /\ UNCHANGED inflight
    /\ IF Running /\ wpc = "fetching"
       THEN IF DeadlinePassed
            THEN /\ End("TimedOut", NoObs)
                 /\ hist' = SetHist("doneAt", now)
            ELSE IF WaitCtxDone
                 THEN /\ End("Cancelled", NoObs)
                      /\ hist' = SetHist("doneAt", now)
                 ELSE Observe(r, newVKEStateRefresh(r, Attribute))
       ELSE UNCHANGED <<wpc, wait, wakeAt, budget, outcome, result, hist>>
    /\ UNCHANGED <<pc, id, diags, attrs, ctxDone, now>>

\* A GetCluster call of the refresh callback returns r.
FetchReturn(r) ==
    /\ UNCHANGED pair
    /\ UNCHANGED life
    /\ inflight > 0
    /\ inflight' = inflight - 1
    /\ IF Running /\ wpc = "fetching"
       THEN IF DeadlinePassed
            THEN /\ End("TimedOut", NoObs)
                 /\ hist' = SetHist("doneAt", now)
            ELSE IF WaitCtxDone
                 THEN /\ End("Cancelled", NoObs)
                      /\ hist' = SetHist("doneAt", now)
                 ELSE Observe(r, newVKEStateRefresh(r, Attribute))
       ELSE UNCHANGED <<wpc, wait, wakeAt, budget, outcome, result, hist>>
    /\ UNCHANGED <<pc, id, diags, attrs, ctxDone, now>>

\* The deadline passes before the target was seen.
AwaitTimeout ==
    /\ UNCHANGED pair
    /\ UNCHANGED life
    /\ Running
    /\ DeadlinePassed
    /\ End("TimedOut", NoObs)
    /\ hist' = SetHist("doneAt", now)
    /\ UNCHANGED <<pc, id, diags, attrs, ctxDone, now, inflight>>

\* The poller sees the cancellation.
AwaitCancelled ==
    /\ UNCHANGED pair
    /\ UNCHANGED life
    /\ Running
    /\ WaitCtxDone
    /\ ~DeadlinePassed
    /\ End("Cancelled", NoObs)
    /\ hist' = SetHist("doneAt", now)
    /\ UNCHANGED <<pc, id, diags, attrs, ctxDone, now, inflight>>

\* Create going on to Read whatever the wait returned.
WaitReturnNoCheck ==
    /\ UNCHANGED pair
    /\ UNCHANGED life
    /\ pc = "waiting"
    /\ wpc = "done"
    /\ pc' = "read"
    /\ UNCHANGED <<id, diags, attrs, ctxDone, now, wpc, wait, wakeAt, budget,
                   outcome, result, inflight, hist>>

\* Create dropping the error of the wait.
WaitReturnSwallow ==
    /\ UNCHANGED pair
    /\ UNCHANGED life
    /\ pc = "waiting"
    /\ wpc = "done"
    /\ IF outcome = "success"
       THEN pc' = "read" /\ UNCHANGED diags
       ELSE pc' = "done" /\ diags' = "ok"
    /\ UNCHANGED <<id, attrs, ctxDone, now, wpc, wait, wakeAt, budget,
                   outcome, result, inflight, hist>>

\* resourceVultrKubernetesCreate after the wait: an error ends Create, a
\* success goes on to Read.
WaitReturn ==
    /\ UNCHANGED pair
    /\ UNCHANGED life
    /\ pc = "waiting"
    /\ wpc = "done"
    /\ IF outcome = "success"
       THEN pc' = "read" /\ UNCHANGED diags
       ELSE pc' = "done" /\ diags' = "error"
    /\ UNCHANGED <<id, attrs, ctxDone, now, wpc, wait, wakeAt, budget,
                   outcome, result, inflight, hist>>

\* A Read that looks for "Invalid resource ID" before "Unauthorized".
ReadGetClusterNotFoundFirst(r) ==
    /\ UNCHANGED pair
    /\ pc = "read"
    /\ hist' = [hist EXCEPT !.readErr = r.err]
    /\ calls' = Log("GetCluster", r.err = "none")
    /\ IF r.err # "none"
       THEN /\ IF Contains(r.err, "Invalid resource ID")
               THEN id' = "" /\ diags' = "ok"
               ELSE diags' = "error" /\ UNCHANGED id
            /\ pc' = "done"
            /\ UNCHANGED <<attrs, d>>
       ELSE /\ d' = [d EXCEPT !.pools = ReadPools(remote.pools, @)]
            /\ attrs' = attrs \cup {"status"}
            /\ pc' = "kubeconfig"
            /\ UNCHANGED <<id, diags>>
    /\ UNCHANGED <<ctxDone, now, wpc, wait, wakeAt, budget, outcome, result,
                   inflight, op, ops, st, remote>>

\* resourceVultrKubernetesRead: GetCluster and the attributes set from it.
ReadGetCluster(r) ==
    /\ UNCHANGED pair
    /\ pc = "read"
    /\ hist' = [hist EXCEPT !.readBeforeOk =
                               @ \/ (op = "create" /\ outcome # "success"),
                           !.readErr = r.err]
    /\ calls' = Log("GetCluster", r.err = "none")
    /\ IF r.err # "none"
       THEN /\ IF Contains(r.err, "Unauthorized")
               THEN /\ diags' = "error"
                    /\ pc' = "done"
                    /\ UNCHANGED <<id, attrs>>
               ELSE IF Contains(r.err, "Invalid resource ID")
                    THEN /\ id' = ""
                         /\ diags' = "ok"
                         /\ pc' = "done"
                         /\ UNCHANGED attrs
                    ELSE /\ diags' = "error"
                         /\ pc' = "done"
                         /\ UNCHANGED <<id, attrs>>
            /\ UNCHANGED d
       ELSE /\ d' = [d EXCEPT !.pools = ReadPools(remote.pools, @)]
            /\ attrs' = attrs \cup
                  (IF TaggedAt(remote.pools) # {} THEN {"node_pools"} ELSE {}) \cup
                  {"date_created", "cluster_subnet", "service_subnet", "ip",
                   "endpoint", "status"}
            /\ pc' = "kubeconfig"
            /\ UNCHANGED <<id, diags>>
    /\ UNCHANGED <<ctxDone, now, wpc, wait, wakeAt, budget, outcome, result,
                   inflight, op, ops, st, remote>>

\* resourceVultrKubernetesRead: GetKubeConfig.
ReadGetKubeConfig(k) ==
    /\ UNCHANGED pair
    /\ pc = "kubeconfig"
    /\ IF k = "error"
       THEN diags' = "error" /\ UNCHANGED attrs
       ELSE diags' = "ok" /\ attrs' = attrs \cup {"kube_config"}
    /\ pc' = "done"
    /\ calls' = Log("GetKubeConfig", k # "error")
    /\ UNCHANGED <<id, ctxDone, now, wpc, wait, wakeAt, budget, outcome,
                   result, inflight, hist, op, ops, st, d, remote>>

\* A handler starts after the one before has returned: its context, its
\* locals and its diagnostics are new.  base is the state it is given, nd
\* the ResourceData it works on.
Start(o, base, nd) ==
    /\ UNCHANGED pair
    /\ pc = "done"
    /\ id # ""
    /\ ops < MaxOps
    /\ ~(op = "delete" /\ diags = "ok")
    /\ (op = "create" /\ diags = "error") => o = "delete"
    /\ op' = o
    /\ ops' = ops + 1
    /\ pc' = o
    /\ st' = base
    /\ d' = nd
    /\ calls' = <<>>
    /\ diags' = "none"
    /\ attrs' = {}
    /\ ctxDone' = FALSE
    /\ now' = 0
    /\ wpc' = "idle"
    /\ wait' = 0
    /\ wakeAt' = 0
    /\ budget' = 0
    /\ outcome' = "none"
    /\ result' = NoObs
    /\ inflight' = 0
    /\ hist' = NoHist
    /\ UNCHANGED <<id, remote>>

\* The state the next handler is given: what the handler before left in its
\* ResourceData when it returned no error; after an error either that or
\* the state it was given itself.
Saved == IF diags = "ok" THEN {d} ELSE {d, st}

\* The framework calls Update with a configuration that differs from the state.
BeginUpdate(cfg) ==
    \E base \in Saved :
        LET nd == [label |-> cfg.label, pools |-> Planned(base.pools, cfg.pools)]
        IN  /\ nd # base
            /\ Start("update", base, nd)

\* The framework calls Read (a refresh).
BeginRead ==
    \E base \in Saved : Start("read", base, base)

\* The framework calls Delete.
BeginDelete ==
    \E base \in Saved : Start("delete", base, base)

\* An Update that goes on to the node pools when UpdateCluster has failed.
UpdateLabelContinue(ok) ==
    /\ UNCHANGED pair
    /\ pc = "update"
    /\ pc' = "nodepool"
    /\ IF d.label # st.label
       THEN /\ calls' = Log("UpdateCluster", ok)
            /\ remote' = IF ok THEN [remote EXCEPT !.label = d.label] ELSE remote
       ELSE ok /\ UNCHANGED <<calls, remote>>
    /\ UNCHANGED <<id, diags, attrs, ctxDone, now, wpc, wait, wakeAt, budget,
                   outcome, result, inflight, hist, op, ops, st, d>>

\* resourceVultrKubernetesUpdate: the label.
UpdateLabel(ok) ==
    /\ UNCHANGED pair
    /\ pc = "update"
    /\ IF d.label # st.label
       THEN /\ calls' = Log("UpdateCluster", ok)
            /\ IF ok
               THEN /\ remote' = [remote EXCEPT !.label = d.label]
                    /\ pc' = "nodepool"
                    /\ UNCHANGED diags
               ELSE /\ diags' = "error"
                    /\ pc' = "done"
                    /\ UNCHANGED remote
       ELSE /\ ok
            /\ pc' = "nodepool"
            /\ UNCHANGED <<calls, remote, diags>>
    /\ UNCHANGED <<id, attrs, ctxDone, now, wpc, wait, wakeAt, budget, outcome,
                   result, inflight, hist, op, ops, st, d>>

\* resourceVultrKubernetesUpdate: the node pools.
UpdateNodePools(ok) ==
    /\ UNCHANGED pair
    /\ pc = "nodepool"
    /\ IF d.pools # st.pools
       THEN LET call == NodePoolCall(st.pools, d.pools)
            IN  IF call = NoCall
                THEN /\ ok
                     /\ pc' = "read"
                     /\ UNCHANGED <<calls, remote, diags>>
                ELSE /\ ok => CanSucceed(call, remote)
                     /\ calls' = LogCall(call, ok)
                     /\ IF ok
                        THEN /\ remote' = ApplyCall(call, remote)
                             /\ pc' = "read"
                             /\ UNCHANGED diags
                        ELSE /\ diags' = "error"
                             /\ pc' = "done"
                             /\ UNCHANGED remote
       ELSE /\ ok
            /\ pc' = "read"
            /\ UNCHANGED <<calls, remote, diags>>
    /\ UNCHANGED <<id, attrs, ctxDone, now, wpc, wait, wakeAt, budget, outcome,
                   result, inflight, hist, op, ops, st, d>>

\* resourceVultrKubernetesDelete
DeleteCluster(ok) ==
    /\ UNCHANGED pair
    /\ pc = "delete"
    /\ calls' = Log("DeleteCluster", ok)
    /\ IF ok
       THEN remote' = [remote EXCEPT !.exists = FALSE] /\ diags' = "ok"
       ELSE diags' = "error" /\ UNCHANGED remote
    /\ pc' = "done"
    /\ UNCHANGED <<id, attrs, ctxDone, now, wpc, wait, wakeAt, budget, outcome,
                   result, inflight, hist, op, ops, st, d>>

\* ------------------------------------------------- two waits side by side

\* What GetCluster returns, with the fields beside the status.
PairResults ==
    [err : {"none"}, status : Statuses, payload : Payloads]
        \cup [err : ApiErrors, status : {""}, payload : {"nil"}]

\* A refresh callback that takes the state from another field of the cluster.
PairRefreshByPayload(r) ==
    IF r.err = "none" /\ r.payload = "ip-2"
    THEN [res |-> r.payload, state |-> Target, err |-> "none"]
    ELSE [newVKEStateRefresh(r, Attribute) EXCEPT !.res = r.payload]

\* newVKEStateRefresh: the result is the cluster, the state its status.
PairRefresh(r) == [newVKEStateRefresh(r, Attribute) EXCEPT !.res = r.payload]

\* One StateChangeConf for all waits.
StateConfShared(i) == CHOOSE j \in Invocations : \A k \in Invocations : j <= k

\* waitForVKEAvailable: every call makes its own StateChangeConf.
StateConfOf(i) == i

\* The poller record at the start of a wait.
PollerStart ==
    [wait |-> MinTimeout, budget |-> NotFoundChecks, outcome |-> "none", fetches |-> 0]

\* The poller after one more observation: Observe on a poller record.
PollerStep(p, obs) ==
    LET c == Classify(obs)
        q == [p EXCEPT !.fetches = @ + 1]
    IN  IF p.outcome # "none" THEN p
        ELSE CASE c = "target" -> [q EXCEPT !.outcome = "success"]
               [] c = "transient" -> [q EXCEPT !.wait = NextWait(@)]
               [] c = "unexpected" -> [q EXCEPT !.outcome = "Unexpected"]
               [] c = "notfound" ->
                    IF p.budget = 0
                    THEN [q EXCEPT !.outcome = "NotFound"]
                    ELSE [q EXCEPT !.budget = @ - 1, !.wait = NextWait(@)]
               [] c = "error" -> [q EXCEPT !.outcome = "TransportError"]

\* Wait i starts.
PairStart(i) ==
    /\ i \notin begun
    /\ begun' = begun \cup {i}
    /\ confs' = [confs EXCEPT ![StateConfOf(i)] = PollerStart]
    /\ UNCHANGED seen
    /\ UNCHANGED <<pc, id, diags, attrs, ctxDone, now, wpc, wait, wakeAt, budget,
                   outcome, result, inflight, hist, op, ops, st, d, remote, calls>>

\* One tick of wait i: its refresh callback returns r.
PairTick(i, r) ==
    /\ i \in begun
    /\ confs[StateConfOf(i)].outcome = "none"
    /\ Len(seen[i]) < MaxFetches
    /\ seen' = [seen EXCEPT ![i] = Append(@, r)]
    /\ confs' = [confs EXCEPT ![StateConfOf(i)] = PollerStep(@, PairRefresh(r))]
    /\ UNCHANGED begun
    /\ UNCHANGED <<pc, id, diags, attrs, ctxDone, now, wpc, wait, wakeAt, budget,
                   outcome, result, inflight, hist, op, ops, st, d, remote, calls>>

PairNext ==
    \/ \E i \in Invocations : PairStart(i)
    \/ \E i \in Invocations, r \in PairResults : PairTick(i, r)

PairSpec == Init /\ [][PairNext]_vars

Next ==
    \/ \E ok \in BOOLEAN, np \in CreateConfigPools : CreateCluster(ok, np)
    \/ CtxCancel
    \/ \E dt \in {MinTimeout, Due - now} : Tick(dt)
    \/ FetchStart
    \/ \E r \in GetClusterResults : FetchReturn(r)
    \/ AwaitTimeout
    \/ AwaitCancelled
    \/ WaitReturn
    \/ \E r \in GetClusterResults : ReadGetCluster(r)
    \/ \E k \in GetKubeConfigResults : ReadGetKubeConfig(k)
    \/ \E cfg \in [label : Labels, pools : ConfigPools] : BeginUpdate(cfg)
    \/ BeginRead
    \/ BeginDelete
    \/ \E ok \in BOOLEAN : UpdateLabel(ok)
    \/ \E ok \in BOOLEAN : UpdateNodePools(ok)
    \/ \E ok \in BOOLEAN : DeleteCluster(ok)

Spec == Init /\ [][Next]_vars

\* Timers fire, the poller and Create run when they can: the steps of the
\* program itself are weakly fair.  The remote API's answers and the
\* caller's cancellation are not.
LiveSpec ==
    /\ Spec
    /\ WF_vars(\E dt \in {MinTimeout, Due - now} : Tick(dt))
    /\ WF_vars(FetchStart)
    /\ WF_vars(AwaitTimeout)
    /\ WF_vars(AwaitCancelled)
    /\ WF_vars(WaitReturn)

\* ---------------------------------------------------------------- claims

\* C1: when the fetches of a wait are n transient observations followed by
\* the target "active", with no timeout and no cancellation, the wait ends
\* in success carrying that observation, after exactly n+1 fetches.
C1_TargetAfterTransients ==
    /\ (hist.lastRaw.err = "none" /\ hist.lastRaw.status = "active") =>
          /\ outcome = "success"
          /\ result = [res |-> "vke", state |-> "active", err |-> "none"]
    /\ outcome = "success" =>
          /\ hist.lastRaw.status = "active"
          /\ hist.apiErrs = 0
          /\ hist.fetches < MaxCount => hist.fetches = hist.transients + 1

\* [pending, pending, active]: 3 fetches and success.
C1_Witness ==
    outcome = "success" /\ hist.fetches = 3 /\ hist.transients = 2

\* C2: Create returns without error only after the wait ended in success on
\* an "active" status; Read starts only after that success; a failed wait
\* makes Create return an error without any Read.
C2_CreateBlocksOnConvergence ==
    /\ (op = "create" /\ diags = "ok") =>
          (outcome = "success" /\ hist.lastRaw.status = "active")
    /\ (op = "create" /\ pc \in {"read", "kubeconfig"}) =>
          (outcome = "success" /\ id = ClusterID)
    /\ ~hist.readBeforeOk
    /\ outcome \notin {"none", "success"} =>
          /\ attrs = {}
          /\ pc \in {"waiting", "done"}
          /\ pc = "done" => diags = "error"

\* Create has returned without error after the wait and the Read.
C2_Witness ==
    pc = "done" /\ diags = "ok" /\ "kube_config" \in attrs /\ hist.transients = 1

\* C3: a label that is neither the target nor transient ends the wait with
\* Unexpected right after that fetch: no sleep and no fetch follow it, and
\* when it is the first label the wait made exactly one fetch.
C3_UnexpectedStateFatal ==
    /\ (hist.lastRaw.err = "none"
          /\ hist.lastRaw.status \in Statuses \ {"active", "pending"}) =>
          /\ outcome = "Unexpected"
          /\ wpc = "done"
          /\ result.state = hist.lastRaw.status
    /\ outcome = "Unexpected" =>
          /\ ~hist.fetchAfterEnd
          /\ inflight = 0
          /\ hist.fetches < MaxCount =>
                /\ hist.fetches = hist.transients + 1
                /\ hist.sleeps = hist.transients

\* The first fetch returned an unexpected label.
C3_Witness ==
    outcome = "Unexpected" /\ hist.fetches = 1 /\ hist.sleeps = 0

\* C4: a GetCluster failure that means "not found" is retried while the
\* budget of 60 lasts: it takes one unit of the budget and does not end the
\* wait.
C4_NotFoundRetried ==
    (hist.lastRaw.err = "Invalid resource ID" /\ hist.notFounds <= NotFoundChecks) =>
        /\ outcome \in {"none", "Cancelled", "TimedOut"}
        /\ budget = NotFoundChecks - hist.notFounds

\* C5: the wait does not run past 60 minutes; once the deadline is reached
\* the only outcome is TimedOut, and no fetch is issued at or after it.
C5_TimeoutEndsWait ==
    /\ now <= 3600
    /\ (now >= 3600 /\ outcome # "none") => outcome = "TimedOut"
    /\ outcome = "TimedOut" => hist.doneAt >= Timeout
    /\ ~hist.lateFetch

\* The deadline passed while the poller slept after two transient labels.
C5_Witness ==
    outcome = "TimedOut" /\ hist.transients = 2 /\ inflight = 0

\* C6: once the context is cancelled during the wait, before the deadline,
\* no fetch is issued any more and the wait ends Cancelled, never in success
\* and never TimedOut.
C6_CancelStopsPolling ==
    (hist.cancelAt >= 0 /\ hist.cancelAt < Timeout) =>
        /\ ~hist.fetchAfterCancel
        /\ outcome \in {"none", "Cancelled"}
        /\ wpc = "done" => outcome = "Cancelled"

\* Cancelled while a fetch was in flight, after one transient label.
C6_Witness ==
    outcome = "Cancelled" /\ hist.transients = 1 /\ inflight = 1

\* The current backoff interval.
Backoff == IF wait < MinTimeout THEN MinTimeout ELSE wait

C8_TransportErrorPropagates ==
    /\ hist.lastRaw.err \in ApiErrors \ {"Invalid resource ID"} =>
          /\ outcome = "TransportError"
          /\ wpc = "done"
          /\ result.err # "none"
          /\ hist.apiErrs = 1
    /\ outcome = "TransportError" =>
          /\ budget = NotFoundChecks
          /\ ~hist.sleptOnErr
          /\ ~hist.fetchAfterEnd
          /\ inflight = 0
          /\ hist.fetches < MaxCount =>
                /\ hist.fetches = hist.transients + 1
                /\ hist.sleeps = hist.transients

\* A transport error after two transient labels.
C8_Witness ==
    /\ outcome = "TransportError"
    /\ hist.lastRaw.err = "connection reset"
    /\ hist.transients = 2

\* C9: the first sleep is 5 seconds, each later sleep is the previous one
\* doubled up to maxInterval, never shorter than the previous one, and no
\* sleep is longer than maxInterval (within one handler's wait: ops counts
\* the handlers begun after Create).
C9_BackoffMonotoneBounded ==
    /\ [](/\ hist.sleeps >= 1 => hist.firstSleep = 5
          /\ hist.lastSleep <= MaxInterval
          /\ wpc = "sleeping" => wakeAt - now <= hist.lastSleep)
    /\ [][ops' = ops =>
            /\ hist'.lastSleep >= hist.lastSleep
            /\ (hist.lastSleep > 0 /\ hist'.sleeps # hist.sleeps) =>
                  hist'.lastSleep = Min(2 * hist.lastSleep, MaxInterval)]_vars

\* The poller sleeps at the cap after having slept 5 and 10 seconds.
C9_Witness ==
    wpc = "sleeping" /\ hist.lastSleep = MaxInterval /\ hist.sleeps = 3

Outcomes ==
    {"success", "NotFound", "Unexpected", "TimedOut", "Cancelled", "TransportError"}

\* C10: every wait ends, with exactly one outcome of the six, which never
\* changes afterwards; a failure reaches the caller as an error of Create
\* and never as a success; no fetch follows the outcome.
C10_AwaitTerminates ==
    /\ [](/\ outcome \in Outcomes \cup {"none"}
          /\ (wpc = "done") = (outcome \in Outcomes)
          /\ ~hist.fetchAfterEnd
          /\ (outcome \in Outcomes \ {"success"} /\ pc = "done") => diags = "error")
    /\ [][(outcome # "none" /\ ops' = ops) => outcome' = outcome]_vars
    /\ (wpc # "idle") ~> (wpc = "done")
    /\ (outcome \in Outcomes \ {"success"}) ~> (pc = "done" /\ diags = "error")

\* Create has returned the error of a wait that timed out.
C10_Witness ==
    pc = "done" /\ diags = "error" /\ outcome = "TimedOut"

\* C11: the fetches of a wait are strictly sequential: at most one
\* GetCluster call of the refresh callback is in flight, and a tick starts
\* its fetch only after the fetch of the tick before has returned, also when
\* the timeout or a cancellation ends the wait during a fetch.
C11_FetchesSequential ==
    /\ inflight <= 1
    /\ ~hist.overlap
    /\ (Running /\ wpc \in {"delay", "sleeping"}) => inflight = 0
    /\ (Running /\ wpc = "fetching") => inflight = 1
    /\ inflight = 1 => (wpc = "fetching" \/ outcome \in {"TimedOut", "Cancelled"})

\* The deadline passed during the third fetch of the wait.
C11_Witness ==
    outcome = "TimedOut" /\ inflight = 1 /\ hist.fetches = 3

\* C12: during the wait every tick issues exactly one GetCluster call and
\* nothing else: the reads equal the ticks and no write is issued.
C12_OneReadPerTick ==
    /\ hist.fetches < MaxCount => hist.reads = hist.fetches
    /\ ~hist.waitWrites
    /\ Running => inflight <= ReadsIn(<<"GetCluster">>)
    /\ pc = "waiting" =>
          /\ Len(calls) = 1
          /\ calls[1].api = "CreateCluster"

\* Three ticks have issued three reads.
C12_Witness ==
    Running /\ wpc = "fetching" /\ hist.fetches = 3 /\ hist.reads = 3

\* C15: when GetCluster fails in Read, a message containing "Unauthorized"
\* gives an error and leaves the ID (also when it contains "Invalid
\* resource ID" as well); otherwise a message containing "Invalid resource
\* ID" clears the ID and gives no error; any other message gives an error
\* and leaves the ID.  Read clears the ID in no other case, and after a
\* failed GetCluster no attribute is written and GetKubeConfig is not called.
C15_ReadClassifiesFailure ==
    /\ hist.readErr # "none" =>
          /\ pc = "done"
          /\ attrs = {}
          /\ calls[Len(calls)] = [api |-> "GetCluster", ok |-> FALSE,
                                  pool |-> 0, tag |-> NoTag]
          /\ \A i \in DOMAIN calls : calls[i].api # "GetKubeConfig"
          /\ IF "Unauthorized" \in Phrases(hist.readErr)
             THEN diags = "error" /\ id = ClusterID
             ELSE IF "Invalid resource ID" \in Phrases(hist.readErr)
                  THEN diags = "ok" /\ id = ""
                  ELSE diags = "error" /\ id = ClusterID
    /\ (id = "" /\ \E i \in DOMAIN calls : calls[i].api = "GetCluster") =>
          /\ "Invalid resource ID" \in Phrases(hist.readErr)
          /\ "Unauthorized" \notin Phrases(hist.readErr)

\* Read of an update has met a message that holds both phrases.
C15_Witness ==
    /\ op = "update"
    /\ pc = "done"
    /\ hist.readErr = "Unauthorized: Invalid resource ID"
    /\ diags = "error"
    /\ id = ClusterID

\* C19: when CreateCluster fails, Create returns an error with the ID
\* unset, no fetch and no Read; when it succeeds the ID is set before the
\* first fetch and is still set when the wait has failed.
C19_CreateSetsIdBeforeWait ==
    op = "create" =>
        /\ calls = <<>> => (pc = "start" /\ id = "" /\ hist.fetches = 0)
        /\ (calls # <<>> /\ ~calls[1].ok) =>
              /\ calls = <<[api |-> "CreateCluster", ok |-> FALSE,
                            pool |-> 0, tag |-> NoTag]>>
              /\ pc = "done"
              /\ diags = "error"
              /\ id = ""
              /\ wpc = "idle"
              /\ hist.fetches = 0
              /\ hist.reads = 0
        /\ (calls # <<>> /\ calls[1].ok /\ pc = "waiting") => id # ""
        /\ (hist.fetches > 0 \/ inflight > 0) => (calls # <<>> /\ calls[1].ok)
        /\ (pc = "done" /\ outcome \in Outcomes \ {"success"}) =>
              /\ id # ""
              /\ diags = "error"
              /\ Len(calls) = 1

\* Create has returned the error of a wait that met a failed cluster; the
\* ID is set.
C19_Witness ==
    /\ op = "create"
    /\ pc = "done"
    /\ outcome = "Unexpected"
    /\ id = ClusterID
    /\ calls = <<[api |-> "CreateCluster", ok |-> TRUE, pool |-> 0, tag |-> NoTag]>>

NodePoolApis == {"UpdateNodePool", "DeleteNodePool", "CreateNodePool"}

\* The node-pool calls the handler has issued so far.
NodeCalls == SelectSeq(calls, LAMBDA c : c.api \in NodePoolApis)

\* Update is past its node-pool step and Read has not begun: d still holds
\* the planned values.
PoolStepOver ==
    /\ op = "update"
    /\ pc \in {"read", "done"}
    /\ \A i \in DOMAIN calls : calls[i].api \notin {"GetCluster", "GetKubeConfig"}

LabelFailed ==
    \E i \in DOMAIN calls : calls[i].api = "UpdateCluster" /\ ~calls[i].ok

\* The one node-pool call that the old and the new node_pools ask for.
RightNodeCall ==
    /\ Len(NodeCalls) = 1
    /\ (st.pools # <<>> /\ d.pools # <<>>) =>
          (NodeCalls[1].api = "UpdateNodePool" /\ NodeCalls[1].pool = d.pools[1].id)
    /\ (st.pools # <<>> /\ d.pools = <<>>) =>
          (NodeCalls[1].api = "DeleteNodePool" /\ NodeCalls[1].pool = st.pools[1].id)
    /\ (st.pools = <<>> /\ d.pools # <<>>) => NodeCalls[1].api = "CreateNodePool"

\* C16 as stated: whenever node_pools changed, Update has issued exactly one
\* node-pool call, the one chosen by the emptiness of the old and the new
\* list, and none when node_pools did not change.
C16_ExactlyOneNodePoolCall ==
    PoolStepOver =>
        IF d.pools # st.pools THEN RightNodeCall ELSE NodeCalls = <<>>

\* C16 amended: when node_pools changed and the label update, if there was
\* one, did not fail, Update has issued exactly one node-pool call, the one
\* chosen by the emptiness of the old and the new list; when the label
\* update failed or node_pools did not change it has issued none.
C16_OneNodePoolCallAfterLabel ==
    PoolStepOver =>
        IF d.pools # st.pools /\ ~LabelFailed THEN RightNodeCall ELSE NodeCalls = <<>>

\* Update has changed label and pool: one UpdateNodePool on the pool in the
\* state.
C16_Witness ==
    /\ PoolStepOver
    /\ pc = "read"
    /\ st.pools # <<>>
    /\ calls = <<[api |-> "UpdateCluster", ok |-> TRUE, pool |-> 0, tag |-> NoTag],
                 [api |-> "UpdateNodePool", ok |-> TRUE, pool |-> st.pools[1].id,
                  tag |-> NoTag]>>

\* The place of an API call in Update.
Rank(api) ==
    CASE api = "UpdateCluster" -> 1
      [] api \in NodePoolApis -> 2
      [] api = "GetCluster" -> 3
      [] OTHER -> 4

\* C18: Update calls UpdateCluster, then the node-pool API, then Read, each
\* at most once and in this order; a failed UpdateCluster or node-pool call
\* is its last call and Update returns an error; a label changed remotely
\* stays changed when a later step fails.
C18_UpdateStopsAtFirstFailure ==
    op = "update" =>
        /\ \A i, j \in DOMAIN calls : i < j => Rank(calls[i].api) < Rank(calls[j].api)
        /\ \A i \in DOMAIN calls :
              (Rank(calls[i].api) <= 2 /\ ~calls[i].ok) =>
                  (i = Len(calls) /\ pc = "done" /\ diags = "error")
        /\ (\E i \in DOMAIN calls : calls[i].api = "UpdateCluster" /\ calls[i].ok) =>
              remote.label = d.label
        /\ (\E i \in DOMAIN calls : calls[i].api = "GetCluster") =>
              /\ d.label # st.label =>
                    calls[1] = [api |-> "UpdateCluster", ok |-> TRUE,
                                pool |-> 0, tag |-> NoTag]
              /\ \A i \in DOMAIN calls : Rank(calls[i].api) <= 2 => calls[i].ok
        /\ pc \in {"read", "kubeconfig"} => diags = "none"

\* The label was changed remotely, then the node-pool call failed: Update
\* has returned an error and the new label is still there.
C18_Witness ==
    /\ op = "update"
    /\ pc = "done"
    /\ diags = "error"
    /\ Len(calls) = 2
    /\ calls[1].api = "UpdateCluster" /\ calls[1].ok
    /\ calls[2].api = "UpdateNodePool" /\ ~calls[2].ok
    /\ remote.label = d.label /\ d.label # st.label

\* The ids of the pools the cluster has.
RemoteIds == {remote.pools[i].id : i \in DOMAIN remote.pools}

\* Read has run to its end without an error and the ID is still set.
ReadDone ==
    /\ op \in {"create", "update", "read"}
    /\ pc = "done"
    /\ diags = "ok"
    /\ id # ""

\* C17: every pool the provider has created carries the tag tf-vke-default,
\* from CreateCluster as from CreateNodePool; UpdateNodePool sends no tag;
\* CreateNodePool is called only when the state holds no pool; and a Read
\* that succeeds finds a tagged pool whenever the cluster has a pool: the
\* first one, which is the pool of the state when that one still exists.
C17_ManagedPoolFound ==
    /\ \A i \in DOMAIN remote.pools : remote.pools[i].tag = "tf-vke-default"
    /\ \A i \in DOMAIN calls :
          /\ calls[i].api = "UpdateNodePool" => calls[i].tag = NoTag
          /\ calls[i].api = "CreateNodePool" =>
                (calls[i].tag = "tf-vke-default" /\ st.pools = <<>>)
    /\ (ReadDone /\ remote.pools # <<>>) =>
          /\ d.pools # <<>>
          /\ d.pools[1].id = remote.pools[1].id
          /\ d.pools[1].tag = "tf-vke-default"
          /\ (st.pools # <<>> /\ st.pools[1].id \in RemoteIds) =>
                d.pools[1].id = st.pools[1].id

\* The state held no pool, Update has created one and Read has found it.
C17_Witness ==
    /\ ReadDone
    /\ op = "update"
    /\ st.pools = <<>>
    /\ \E i \in DOMAIN calls : calls[i].api = "CreateNodePool" /\ calls[i].ok
    /\ d.pools # <<>>
    /\ d.pools[1].id \in RemoteIds

\* The poller record of a wait that runs alone on the results rs.
RECURSIVE RunAlone(_)
RunAlone(rs) ==
    IF rs = <<>> THEN PollerStart
    ELSE PollerStep(RunAlone(SubSeq(rs, 1, Len(rs) - 1)), PairRefresh(rs[Len(rs)]))

\* PollerStep is Observe: when a fetch of Create's wait ends in an
\* observation, the poller's interval, budget and outcome are those
\* PollerStep gives for the result of that fetch.
PollerStepAgrees ==
    [][(wpc = "fetching" /\ wpc' # "fetching"
           /\ outcome' \notin {"TimedOut", "Cancelled"}) =>
          LET p == [wait |-> wait, budget |-> budget, outcome |-> outcome,
                    fetches |-> 0]
              q == PollerStep(p, newVKEStateRefresh(hist'.lastRaw, Attribute))
          IN  /\ wait' = q.wait
              /\ budget' = q.budget
              /\ outcome' = q.outcome]_vars

LabelOf(r) ==
    <<newVKEStateRefresh(r, Attribute).state, newVKEStateRefresh(r, Attribute).err>>

LabelsOf(rs) == [k \in DOMAIN rs |-> LabelOf(rs[k])]

====
